---- MODULE Spec2Model ----
(***************************************************************************)
(* Model of the alphasignal-engine scoring core and of its orchestration:  *)
(*   strategies/indicators.py          compute_rsi, simple_ma, highest_high *)
(*   strategies/news_sentiment.py      NewsSentimentStrategy                *)
(*   strategies/combined_strategies.py the three combination variants       *)
(*   run_strategies.py                 run_for_asset                        *)
(*                                                                         *)
(* Numbers.  Python floats are modelled by exact rationals [n, d] (d > 0,  *)
(* reduced).  Prices are integers, scores are tenths, a rounded score      *)
(* round(x, 3) is the integer number of thousandths, round(x, 2) the       *)
(* number of hundredths.  Time is counted in whole hours.                  *)
(***************************************************************************)
EXTENDS Integers, Sequences, FiniteSets, TLC

VARIABLES
    candles,     \* rows of table "candles" for the symbol, oldest first
    news,        \* rows of table "news_articles" for the symbol
    now,         \* datetime.now(timezone.utc), in hours
    pc,          \* position of run_for_asset: "idle", "asset", "loop", "done", "raised"
    timeframe,   \* argument of run_for_asset
    asset_id,    \* local of run_for_asset
    idx,         \* index of the strategy the loop of run_for_asset is at
    signals,     \* rows inserted into table "signals" by the current run
    skipped,     \* codes of the strategies the loop skipped with a warning
    strategy_ids,\* codes of the strategies get_strategy_id found a row for
    res,         \* the last generate_signal call: [who, at, out]
    prev,        \* the generate_signal call before it
    fetches      \* number of news_articles queries made by the last call

vars == <<candles, news, now, pc, timeframe, asset_id, idx, signals, skipped,
          strategy_ids, res, prev, fetches>>

-----------------------------------------------------------------------------
(* Exact arithmetic standing for Python's float arithmetic.                *)

Abs(x) == IF x < 0 THEN -x ELSE x
Max2(a, b) == IF a >= b THEN a ELSE b
Min2(a, b) == IF a <= b THEN a ELSE b

RECURSIVE GCD(_, _)
GCD(a, b) == IF b = 0 THEN a ELSE GCD(b, a % b)

\* the rational n/d (d # 0), reduced, with a positive denominator
Frac(n, d) ==
    LET g == GCD(Abs(n), Abs(d))
        s == IF d < 0 THEN -1 ELSE 1
    IN  [n |-> s * (n \div g), d |-> s * (d \div g)]

FInt(k) == [n |-> k, d |-> 1]
\* (common factors are taken out before multiplying, to keep the numbers small)
FAdd(a, b) ==
    LET g == GCD(a.d, b.d)
    IN  Frac(a.n * (b.d \div g) + b.n * (a.d \div g), (a.d \div g) * b.d)
FMul(a, b) ==
    LET g1 == GCD(Abs(a.n), b.d)
        g2 == GCD(Abs(b.n), a.d)
    IN  Frac((a.n \div g1) * (b.n \div g2), (a.d \div g2) * (b.d \div g1))
\* b # 0
FDiv(a, b) == FMul(a, IF b.n < 0 THEN [n |-> -b.d, d |-> -b.n] ELSE [n |-> b.d, d |-> b.n])
FLess(a, b) ==
    LET g == GCD(a.d, b.d)
    IN  a.n * (b.d \div g) < b.n * (a.d \div g)
FLeq(a, b) == ~FLess(b, a)
FMax(a, b) == IF FLess(a, b) THEN b ELSE a
FMin(a, b) == IF FLess(b, a) THEN b ELSE a
FAbs(a) == [n |-> Abs(a.n), d |-> a.d]

\* Python's round(x, k) for x = a.n/a.d, as the integer round(x * scale):
\* to the nearest, a tie to the even neighbour.
\* (scale is a power of 10; one decimal digit at a time)
RECURSIVE DivScaled(_, _, _)
DivScaled(n, d, scale) ==
    IF scale = 1 THEN [q |-> n \div d, r |-> n % d]
    ELSE LET p == DivScaled(n, d, scale \div 10)
         IN  [q |-> p.q * 10 + (p.r * 10) \div d, r |-> (p.r * 10) % d]

Round(a, scale) ==
    LET p   == DivScaled(Abs(a.n), a.d, scale)
        up  == (2 * p.r > a.d) \/ (2 * p.r = a.d /\ p.q % 2 = 1)
        m   == IF up THEN p.q + 1 ELSE p.q
    IN  IF a.n < 0 THEN -m ELSE m

-----------------------------------------------------------------------------
(* strategies/indicators.py                                                *)

\* sum(s[lo..hi]) and max(s[lo..hi]), by halves: the evaluation stays shallow
\* on a few hundred values, and exact sums do not depend on the order
RECURSIVE SumRange(_, _, _)
SumRange(s, lo, hi) ==
    IF lo > hi THEN 0
    ELSE IF lo = hi THEN s[lo]
    ELSE LET mid == (lo + hi) \div 2
         IN  SumRange(s, lo, mid) + SumRange(s, mid + 1, hi)

RECURSIVE MaxRange(_, _, _)
MaxRange(s, lo, hi) ==
    IF lo = hi THEN s[lo]
    ELSE LET mid == (lo + hi) \div 2
         IN  Max2(MaxRange(s, lo, mid), MaxRange(s, mid + 1, hi))

SumSeq(s) == SumRange(s, 1, Len(s))
\* max() of a non-empty sequence
MaxSeq(s) == MaxRange(s, 1, Len(s))

\* s[-k:] of Python: the last k elements, all of them when k >= len(s)
LastN(s, k) == IF Len(s) <= k THEN s ELSE SubSeq(s, Len(s) - k + 1, Len(s))

Closes(cs) == [i \in 1..Len(cs) |-> cs[i].close]
Highs(cs) == [i \in 1..Len(cs) |-> cs[i].high]

\* Wilder smoothing, one step of the loop: avg = (avg * (period - 1) + v) / period
WilderStep(avg, v, period) == Frac(avg.n * (period - 1) + v * avg.d, avg.d * period)

\* steps i..j of the loop, in order
RECURSIVE WilderRange(_, _, _, _, _)
WilderRange(avg, vals, i, j, period) ==
    IF i > j THEN avg
    ELSE LET smoothed == WilderStep(avg, vals[i], period)
         IN  \* the test only makes the evaluation of `smoothed` happen here
             IF smoothed.d > 0 THEN WilderRange(smoothed, vals, i + 1, j, period) ELSE avg

\* for i in range(period, len(delta)): steps i..Len(vals) of the loop, in order
\* (evaluated in runs of 16 steps, which keeps the evaluation shallow)
RECURSIVE Wilder(_, _, _, _)
Wilder(avg, vals, i, period) ==
    IF i > Len(vals) THEN avg
    ELSE LET j == Min2(i + 15, Len(vals))
             smoothed == WilderRange(avg, vals, i, j, period)
         IN  IF smoothed.d > 0 THEN Wilder(smoothed, vals, j + 1, period) ELSE avg

\* compute_rsi: the last RSI as a rational in [0, 100]
compute_rsi(closes, period) ==
    IF Len(closes) < period + 1 THEN FInt(50)
    ELSE
      LET delta  == [i \in 1..(Len(closes) - 1) |-> closes[i + 1] - closes[i]]
          gains  == [i \in 1..Len(delta) |-> IF delta[i] > 0 THEN delta[i] ELSE 0]
          losses == [i \in 1..Len(delta) |-> IF delta[i] < 0 THEN -delta[i] ELSE 0]
          gain0  == Frac(SumSeq(SubSeq(gains, 1, period)), period)
          loss0  == Frac(SumSeq(SubSeq(losses, 1, period)), period)
          avg_gain == Wilder(gain0, gains, period + 1, period)
          avg_loss == Wilder(loss0, losses, period + 1, period)
      IN  IF avg_loss.n = 0 THEN FInt(100)
          ELSE LET rs == FDiv(avg_gain, avg_loss)
               IN  FAdd(FInt(100), FDiv(FInt(-100), FAdd(FInt(1), rs)))

\* simple_ma: mean of the last `period` values; the last value (or 0) when too few
simple_ma(values, period) ==
    IF Len(values) < period
    THEN (IF values # <<>> THEN FInt(values[Len(values)]) ELSE FInt(0))
    ELSE Frac(SumSeq(LastN(values, period)), period)

\* highest_high: max high over the last `lookback` candles (all when fewer);
\* max() of an empty list raises in Python, callers pass at least one candle
highest_high(cs, lookback) ==
    IF Len(cs) < lookback THEN MaxSeq(Highs(cs))
    ELSE MaxSeq(Highs(LastN(cs, lookback)))

-----------------------------------------------------------------------------
(* strategies/base.py: the values                                          *)

BUY == "BUY"
HOLD == "HOLD"

\* a Candle; open, low and volume are never read by the code and are left out
Candle(t, h, c) == [time |-> t, high |-> h, close |-> c]

\* a JSON field of a news row: a number (in tenths), null/absent, or a
\* text that is not a number
Num(v) == [kind |-> "num", v |-> v]
Null == [kind |-> "null", v |-> 0]
Text == [kind |-> "text", v |-> 0]

\* no result
None == [status |-> "none"]

\* a result that was returned, and a call that raised instead
Returned(signal_type, confidence, extra) ==
    [status |-> "ok", signal_type |-> signal_type, confidence |-> confidence,
     extra |-> extra]
Raised(exc) == [status |-> "raised", exc |-> exc]

-----------------------------------------------------------------------------
(* strategies/news_sentiment.py                                            *)

lookback_hours == 24
min_articles == 2

\* _fetch_recent_news: rows with published_at >= now - lookback_hours, as
\* ordered by the query (the table is kept in that order)
fetch_recent_news(table, t) ==
    SelectSeq(table, LAMBDA art : art.published_at >= t - lookback_hours)

\* Python's truth value of a field, deciding `x or default`
Truthy(x) == x.kind = "text" \/ (x.kind = "num" /\ x.v # 0)

\* float(x or default): the default for a falsy field, ValueError for a
\* text that is not a number
float_or(x, default) ==
    IF ~Truthy(x) THEN [ok |-> TRUE, v |-> default]
    ELSE IF x.kind = "text" THEN [ok |-> FALSE, v |-> FInt(0)]
    ELSE [ok |-> TRUE, v |-> Frac(x.v, 10)]

\* recency_weight without its floor: 1.0 / (1.0 + hours_ago / 8.0)
recency_weight_unfloored(hours_ago) ==
    FDiv(FInt(1), FAdd(FInt(1), Frac(hours_ago, 8)))

\* recency_weight = max(0.1, 1.0 / (1.0 + hours_ago / 8.0));
\* the division raises ZeroDivisionError when hours_ago = -8
recency_weight(hours_ago) ==
    FMax(Frac(1, 10), FDiv(FInt(1), FAdd(FInt(1), Frac(hours_ago, 8))))

\* the two accumulators of the loop of _aggregate_sentiment after an article
\* of sentiment s and weight w = impact * recency_weight
add_weighted(acc, s, w) ==
    [weighted_sum |-> FAdd(acc.weighted_sum, FMul(s, w)),
     weight_total |-> FAdd(acc.weight_total, w)]

\* the loop of _aggregate_sentiment from article i on, and its return
RECURSIVE aggregate_loop(_, _, _, _)
aggregate_loop(articles, i, t, acc) ==
    IF i > Len(articles)
    THEN [ok |-> TRUE, exc |-> "",
          v |-> IF acc.weight_total.n > 0 THEN FDiv(acc.weighted_sum, acc.weight_total)
                ELSE FInt(0)]
    ELSE
      LET art == articles[i]
          s == float_or(art.sentiment_score, FInt(0))
          impact == float_or(art.impact_score, Frac(1, 2))
          hours_ago == t - art.published_at
      IN  IF ~s.ok \/ ~impact.ok THEN [ok |-> FALSE, exc |-> "ValueError", v |-> FInt(0)]
          ELSE IF 8 + hours_ago = 0
               THEN [ok |-> FALSE, exc |-> "ZeroDivisionError", v |-> FInt(0)]
          ELSE aggregate_loop(articles, i + 1, t,
                              add_weighted(acc, s.v, FMul(impact.v, recency_weight(hours_ago))))

\* _aggregate_sentiment with accumulators that outlive the call: a call
\* after another starts from what was left in them
aggregate_sentiment_shared(articles, t) ==
    IF articles = <<>> THEN [ok |-> TRUE, exc |-> "", v |-> FInt(0)]
    ELSE aggregate_loop(articles, 1, t,
                        IF res.out.status = "none"
                        THEN [weighted_sum |-> FInt(0), weight_total |-> FInt(0)]
                        ELSE [weighted_sum |-> FInt(1), weight_total |-> FInt(1)])

\* _aggregate_sentiment: the weighted average, or the exception raised
aggregate_sentiment(articles, t) ==
    IF articles = <<>> THEN [ok |-> TRUE, exc |-> "", v |-> FInt(0)]
    ELSE aggregate_loop(articles, 1, t, [weighted_sum |-> FInt(0), weight_total |-> FInt(0)])

\* what a generate_signal call did: the result (or the exception) and the
\* number of news_articles queries it made
Call(out, n) == [out |-> out, fetches |-> n]

\* the decision with a SELL for negative sentiment
news_result_sell(agg, articles_count) ==
    IF ~agg.ok THEN Raised(agg.exc)
    ELSE Returned(IF agg.v.n > 0 THEN BUY ELSE IF agg.v.n < 0 THEN "SELL" ELSE HOLD,
                  Round(FMin(FInt(1), FMax(FInt(0), FAbs(agg.v))), 1000),
                  [avg_sentiment |-> Round(agg.v, 1000), articles_count |-> articles_count])

\* NewsSentimentStrategy.generate_signal from the average on; confidence and
\* avg_sentiment in thousandths (round(x, 3))
news_result(agg, articles_count) ==
    IF ~agg.ok THEN Raised(agg.exc)
    ELSE Returned(IF agg.v.n > 0 THEN BUY ELSE HOLD,
                  Round(FMin(FInt(1), FMax(FInt(0), FAbs(agg.v))), 1000),
                  [avg_sentiment |-> Round(agg.v, 1000), articles_count |-> articles_count])

\* the signal with one article taken as enough
news_signal_one(articles, t) ==
    IF Len(articles) < 1
    THEN Returned(HOLD, 100,
                  [reason |-> "not_enough_news", articles_count |-> Len(articles),
                   avg_sentiment |-> 0])
    ELSE news_result(aggregate_sentiment(articles, t), Len(articles))

\* NewsSentimentStrategy.generate_signal from the fetched articles on
news_signal(articles, t) ==
    IF Len(articles) < min_articles
    THEN Returned(HOLD, 100,
                  [reason |-> "not_enough_news", articles_count |-> Len(articles),
                   avg_sentiment |-> 0])
    ELSE news_result(aggregate_sentiment(articles, t), Len(articles))

\* NewsSentimentStrategy.generate_signal: one query, then the signal
NewsSentiment_generate_signal(table, t) ==
    Call(news_signal(fetch_recent_news(table, t), t), 1)

-----------------------------------------------------------------------------
(* strategies/combined_strategies.py                                       *)

rsi_period == 14
oversold == 30
lookback == 20
ma_period == 200
\* pullback_pct = 0.05
pullback_pct == Frac(5, 100)

NotEnoughCandles == Returned(HOLD, 100, [reason |-> "not_enough_candles"])

\* news_score without max(0.0, .): negative sentiment counts
news_score_signed(news_res) == Frac(news_res.extra.avg_sentiment, 1000)

\* tech_score, tech_weight, news_weight, news_score of the three variants
tech_score(tech_buy) == IF tech_buy THEN FInt(1) ELSE FInt(0)
news_score(news_res) == FMax(FInt(0), Frac(news_res.extra.avg_sentiment, 1000))
tech_weight(tech_buy) == FMul(Frac(7, 10), IF tech_buy THEN FInt(1) ELSE Frac(1, 2))
news_weight(news_res) == FMul(Frac(3, 10), FMax(Frac(2, 10), Frac(news_res.confidence, 1000)))

\* normalized = combined_score / max_possible if max_possible > 0 else 0.0
normalize(combined_score, max_possible) ==
    IF max_possible.n > 0 THEN FDiv(combined_score, max_possible) ELSE FInt(0)

\* the decision with `or` for `and`
decide_or(tech_buy, normalized) ==
    LET signal_type == IF tech_buy \/ FLeq(Frac(35, 100), normalized) THEN BUY ELSE HOLD
    IN  [normalized |-> normalized, signal_type |-> signal_type,
         confidence |-> IF signal_type = BUY THEN normalized ELSE Frac(2, 10)]

\* signal_type and confidence (before rounding) from tech_buy and normalized
decide(tech_buy, normalized) ==
    LET signal_type == IF tech_buy /\ FLeq(Frac(35, 100), normalized) THEN BUY ELSE HOLD
    IN  [normalized |-> normalized, signal_type |-> signal_type,
         confidence |-> IF signal_type = BUY THEN normalized ELSE Frac(2, 10)]

\* the fusion of the technical condition with the news result, the same
\* statements in the three variants
Fusion(tech_buy, news_res) ==
    decide(tech_buy,
           normalize(FAdd(FMul(tech_weight(tech_buy), tech_score(tech_buy)),
                          FMul(news_weight(news_res), news_score(news_res))),
                     FAdd(tech_weight(tech_buy), news_weight(news_res))))

\* the locals of NewsRSICombo.generate_signal up to tech_buy
RSI_locals(cs) ==
    LET closes == Closes(cs)
        rsi == compute_rsi(closes, rsi_period)
    IN  [rsi |-> rsi, tech_buy |-> FLess(rsi, FInt(oversold))]

\* NewsRSICombo.generate_signal from the fusion on
NewsRSICombo_result(l, news_call, f) ==
    IF news_call.out.status = "raised" THEN news_call
    ELSE Call(Returned(f.signal_type, Round(f.confidence, 1000),
                       [normalized_score |-> Round(f.normalized, 1000),
                        rsi |-> Round(l.rsi, 100),
                        news |-> news_call.out]), news_call.fetches)

\* the fusion, when the news call returned
Fused(tech_buy, news_call) ==
    IF news_call.out.status = "raised" THEN None ELSE Fusion(tech_buy, news_call.out)

NewsRSICombo_fused(l, news_call) ==
    NewsRSICombo_result(l, news_call, Fused(l.tech_buy, news_call))

\* NewsRSICombo.generate_signal asking for rsi_period candles, one too few
NewsRSICombo_generate_signal_short(cs, table, t) ==
    IF Len(cs) < rsi_period THEN Call(NotEnoughCandles, 0)
    ELSE NewsRSICombo_fused(RSI_locals(cs), NewsSentiment_generate_signal(table, t))

\* NewsRSICombo.generate_signal
NewsRSICombo_generate_signal(cs, table, t) ==
    IF Len(cs) < rsi_period + 1 THEN Call(NotEnoughCandles, 0)
    ELSE NewsRSICombo_fused(RSI_locals(cs), NewsSentiment_generate_signal(table, t))

\* the locals of NewsBreakoutCombo.generate_signal up to tech_buy
Breakout_locals(cs) ==
    LET last == cs[Len(cs)]
        hh == highest_high(SubSeq(cs, 1, Len(cs) - 1), lookback)
        close == last.close
    IN  [hh |-> hh, close |-> close, tech_buy |-> close > hh]

\* NewsBreakoutCombo.generate_signal from the fusion on
NewsBreakoutCombo_result(l, news_call, f) ==
    IF news_call.out.status = "raised" THEN news_call
    ELSE Call(Returned(f.signal_type, Round(f.confidence, 1000),
                       [normalized_score |-> Round(f.normalized, 1000),
                        close |-> l.close,
                        highest_high_lookback |-> l.hh,
                        news |-> news_call.out]), news_call.fetches)

NewsBreakoutCombo_fused(l, news_call) ==
    NewsBreakoutCombo_result(l, news_call, Fused(l.tech_buy, news_call))

\* NewsBreakoutCombo.generate_signal
NewsBreakoutCombo_generate_signal(cs, table, t) ==
    IF Len(cs) < lookback + 1 THEN Call(NotEnoughCandles, 0)
    ELSE NewsBreakoutCombo_fused(Breakout_locals(cs), NewsSentiment_generate_signal(table, t))

\* drop_from_high = (recent_high - close) / recent_high if recent_high > 0 else 0.0
drop_from_high(recent_high, close) ==
    IF recent_high > 0 THEN Frac(recent_high - close, recent_high) ELSE FInt(0)

\* tech_buy = uptrend and (pullback_pct * 0.5 <= drop_from_high <= pullback_pct)
Trend_tech_buy(ma200, close, drop) ==
    /\ FLess(ma200, FInt(close))
    /\ FLeq(FMul(pullback_pct, Frac(1, 2)), drop)
    /\ FLeq(drop, pullback_pct)

Trend_record(ma200, close, recent_high, drop) ==
    [ma200 |-> ma200, close |-> close, recent_high |-> recent_high,
     drop_from_high |-> drop, tech_buy |-> Trend_tech_buy(ma200, close, drop)]

\* the locals of NewsTrendMA200Combo.generate_signal up to tech_buy
Trend_locals(cs) ==
    Trend_record(simple_ma(Closes(cs), ma_period), cs[Len(cs)].close,
                 MaxSeq(LastN(Closes(cs), 20)),
                 drop_from_high(MaxSeq(LastN(Closes(cs), 20)), cs[Len(cs)].close))

\* NewsTrendMA200Combo.generate_signal from the fusion on
NewsTrendMA200Combo_result(l, news_call, f) ==
    IF news_call.out.status = "raised" THEN news_call
    ELSE Call(Returned(f.signal_type, Round(f.confidence, 1000),
                       [normalized_score |-> Round(f.normalized, 1000),
                        ma200 |-> Round(l.ma200, 100),
                        close |-> l.close,
                        recent_high |-> l.recent_high,
                        drop_from_high |-> Round(l.drop_from_high, 1000),
                        news |-> news_call.out]), news_call.fetches)

NewsTrendMA200Combo_fused(l, news_call) ==
    NewsTrendMA200Combo_result(l, news_call, Fused(l.tech_buy, news_call))

\* NewsTrendMA200Combo.generate_signal
NewsTrendMA200Combo_generate_signal(cs, table, t) ==
    IF Len(cs) < ma_period + 20 THEN Call(NotEnoughCandles, 0)
    ELSE NewsTrendMA200Combo_fused(Trend_locals(cs), NewsSentiment_generate_signal(table, t))

\* build_combined_strategies: the three variants, in this order, sharing
\* one NewsSentimentStrategy
build_combined_strategies ==
    << [code |-> "NEWS_RSI_COMBO", timeframe |-> "1D"],
       [code |-> "NEWS_BREAKOUT_COMBO", timeframe |-> "1D"],
       [code |-> "NEWS_TREND_MA200_COMBO", timeframe |-> "1D"] >>

NewsCode == "NEWS_SENTIMENT_MOMENTUM"
ComboCodes == {build_combined_strategies[i].code : i \in 1..Len(build_combined_strategies)}

\* strat.generate_signal(symbol, candles): dispatch on the class
generate_signal(code, cs, table, t) ==
    CASE code = "NEWS_RSI_COMBO" -> NewsRSICombo_generate_signal(cs, table, t)
      [] code = "NEWS_BREAKOUT_COMBO" -> NewsBreakoutCombo_generate_signal(cs, table, t)
      [] code = "NEWS_TREND_MA200_COMBO" -> NewsTrendMA200Combo_generate_signal(cs, table, t)
      [] code = NewsCode -> NewsSentiment_generate_signal(table, t)

-----------------------------------------------------------------------------
(* run_strategies.py                                                       *)

\* fetch_candles_from_db: the newest 300 rows, oldest first
fetch_candles_from_db(table) == LastN(table, 300)

\* normalize_signal_type
normalize_signal_type(signal_type) == IF signal_type = BUY THEN BUY ELSE HOLD

\* the payload run_for_asset inserts into "signals"
Payload(aid, sid, strat, out, last_candle) ==
    [asset_id |-> aid, strategy_id |-> sid,
     signal_type |-> normalize_signal_type(out.signal_type),
     price |-> last_candle.close, timeframe |-> strat.timeframe,
     generated_at |-> last_candle.time, meta |-> out.extra]

-----------------------------------------------------------------------------
(* The inputs: the contents of the tables, and the clock.                  *)

MaxNews == 2
MaxTicks == 1
\* the clock when a behaviour starts, in hours
Start == 2 * lookback_hours

NoCall == [who |-> "", at |-> 0, out |-> None]

\* price series: close and high of candle i of n
ClosePx(shape, i, n) ==
    LET peak == 100 + n - 1
    IN  CASE shape = "down" -> 1000 - i
          [] shape = "up" -> 100 + i
          [] shape = "wick" -> 100 + i
          [] shape = "flat" -> 500
          [] shape = "zig" -> 1000 - 3 * ((i - 1) \div 2) + (IF i % 2 = 0 THEN 2 ELSE 0)
          [] shape = "pullback" -> IF i < n THEN 100 + i ELSE peak - (3 * peak) \div 100
          [] shape = "dip" -> IF i < n THEN 100 + i ELSE peak - (6 * peak) \div 100

HighPx(shape, i, n) == ClosePx(shape, i, n) + (IF shape = "wick" THEN 5 ELSE 0)

Series(shape, n) == [i \in 1..n |-> Candle(i, HighPx(shape, i, n), ClosePx(shape, i, n))]

\* lengths around each variant's history requirement
ShapeLengths ==
    ({"down", "up", "wick", "flat"} \X {14, 15, 20, 21})
    \cup ({"zig"} \X {14, 15, 16})
    \cup ({"down"} \X {1, 16})
    \cup ({"up", "down", "pullback", "dip"} \X {219, 220})

CandleTables == {<<>>} \cup {Series(p[1], p[2]) : p \in ShapeLengths}
FewCandleTables == {Series("zig", 15), Series("up", 21), Series("pullback", 220)}

Article(t, s, i) == [published_at |-> t, sentiment_score |-> s, impact_score |-> i]

\* rows published 32 h and 8 h before Start, at Start and 16 h after it:
\* scores at both ends of their ranges, absent fields, fields that are no
\* numbers
Articles ==
    { Article(Start, Num(10), Num(10)),
      Article(Start, Num(-10), Num(10)),
      Article(Start - 8, Num(10), Null),
      Article(Start - 8, Num(-5), Num(10)),
      Article(Start - 32, Num(10), Num(10)),
      Article(Start + 16, Num(-10), Null),
      Article(Start, Num(10), Num(0)),
      Article(Start, Num(-10), Num(0)),
      Article(Start, Null, Num(10)),
      Article(Start, Text, Num(10)),
      Article(Start, Num(10), Text) }

\* the rows in the order of the query: published_at descending
Ordered(t) == \A i \in 1..Len(t), j \in 1..Len(t) :
                 i < j => t[i].published_at >= t[j].published_at

NewsTables == {t \in UNION {[1..k -> Articles] : k \in 0..MaxNews} : Ordered(t)}

FewNewsTables ==
    { <<>>,
      <<Article(Start, Num(10), Num(10)), Article(Start - 8, Num(10), Num(10))>>,
      <<Article(Start, Num(-10), Num(10)), Article(Start - 8, Num(-10), Null)>>,
      <<Article(Start, Text, Num(10)), Article(Start - 8, Num(10), Num(10))>> }

Init ==
    /\ \/ candles \in CandleTables /\ news \in FewNewsTables
       \/ candles \in FewCandleTables /\ news \in NewsTables
    /\ now = Start
    /\ pc = "idle"
    /\ timeframe = ""
    /\ asset_id = ""
    /\ idx = 0
    /\ signals = <<>>
    /\ skipped = {}
    /\ strategy_ids = {}
    /\ res = NoCall
    /\ prev = NoCall
    /\ fetches = 0

\* time passes between any two statements, 8 hours at a time
Tick ==
    /\ now < Start + 8 * MaxTicks
    /\ now' = now + 8
    /\ UNCHANGED <<candles, news, pc, timeframe, asset_id, idx, signals, skipped,
                   strategy_ids, res, prev, fetches>>

\* the call is recorded as the last one
Record(code, c) ==
    /\ res' = [who |-> code, at |-> now, out |-> c.out]
    /\ fetches' = c.fetches

\* a caller invokes generate_signal of one of the four strategies
FirstCall(code) ==
    /\ pc = "idle" /\ res = NoCall
    /\ Record(code, generate_signal(code, candles, news, now))
    /\ UNCHANGED <<candles, news, now, pc, timeframe, asset_id, idx, signals, skipped,
                   strategy_ids, prev>>

\* and invokes it a second time, on the same tables
SecondCall ==
    /\ pc = "idle" /\ res # NoCall /\ prev = NoCall
    /\ Record(res.who, generate_signal(res.who, candles, news, now))
    /\ prev' = res
    /\ UNCHANGED <<candles, news, now, pc, timeframe, asset_id, idx, signals, skipped,
                   strategy_ids>>

\* run_for_asset(symbol, tf), to the first return or to the asset lookup
RunStart(tf) ==
    /\ pc = "idle" /\ res = NoCall
    /\ timeframe' = tf
    /\ pc' = IF fetch_candles_from_db(candles) = <<>> THEN "done" ELSE "asset"
    /\ UNCHANGED <<candles, news, now, asset_id, idx, signals, skipped, strategy_ids,
                   res, prev, fetches>>

\* get_asset_id: the row of the symbol, or none
GetAsset(found) ==
    /\ pc = "asset"
    /\ IF found
       THEN asset_id' = "asset-1" /\ pc' = "loop" /\ idx' = 1
       ELSE asset_id' = "" /\ pc' = "done" /\ idx' = idx
    /\ UNCHANGED <<candles, news, now, timeframe, signals, skipped, strategy_ids,
                   res, prev, fetches>>

\* where the loop goes after the strategy at idx
LoopNext ==
    /\ idx' = idx + 1
    /\ pc' = IF idx = Len(build_combined_strategies) THEN "done" ELSE "loop"

\* one iteration of the loop: a strategy of another timeframe is passed over
LoopOtherTimeframe ==
    /\ pc = "loop"
    /\ build_combined_strategies[idx].timeframe # timeframe
    /\ LoopNext
    /\ UNCHANGED <<candles, news, now, timeframe, asset_id, signals, skipped,
                   strategy_ids, res, prev, fetches>>

\* one iteration: get_strategy_id finds no row, the strategy is skipped
LoopUnknownStrategy ==
    /\ pc = "loop"
    /\ build_combined_strategies[idx].timeframe = timeframe
    /\ skipped' = skipped \cup {build_combined_strategies[idx].code}
    /\ LoopNext
    /\ UNCHANGED <<candles, news, now, timeframe, asset_id, signals, strategy_ids,
                   res, prev, fetches>>

\* the end of an iteration whose call c of generate_signal returned or raised
InsertSignal(strat, cs, c) ==
    /\ Record(strat.code, c)
    /\ IF c.out.status = "raised"
       THEN pc' = "raised" /\ idx' = idx /\ signals' = signals
       ELSE /\ signals' = Append(signals,
                                 Payload(asset_id, strat.code, strat, c.out, cs[Len(cs)]))
            /\ LoopNext

\* one iteration: get_strategy_id finds the row, the signal is generated and
\* inserted; an exception of generate_signal leaves run_for_asset
LoopSignal ==
    /\ pc = "loop"
    /\ build_combined_strategies[idx].timeframe = timeframe
    /\ strategy_ids' = strategy_ids \cup {build_combined_strategies[idx].code}
    /\ InsertSignal(build_combined_strategies[idx], fetch_candles_from_db(candles),
                    generate_signal(build_combined_strategies[idx].code,
                                    fetch_candles_from_db(candles), news, now))
    /\ UNCHANGED <<candles, news, now, timeframe, asset_id, skipped, prev>>

\* generate_signal called once or twice, on tables that do not change
Next ==
    \/ Tick
    \/ \E code \in ComboCodes \cup {NewsCode} : FirstCall(code)
    \/ SecondCall

Spec == Init /\ [][Next]_vars

\* generate_signal called once, or run_for_asset run once
NextRun ==
    \/ Tick
    \/ \E code \in ComboCodes \cup {NewsCode} : FirstCall(code)
    \/ \E tf \in {"1D", "1H"} : RunStart(tf)
    \/ \E found \in BOOLEAN : GetAsset(found)
    \/ LoopOtherTimeframe
    \/ LoopUnknownStrategy
    \/ LoopSignal

SpecRun == Init /\ [][NextRun]_vars

-----------------------------------------------------------------------------
(* The claims.                                                             *)

SignalTypes == {BUY, HOLD}

\* the call recorded in r was made, and returned
Made(r) == r.out.status # "none"
Ok(r) == r.out.status = "ok"

\* the articles the call recorded in r fetched
Fetched(r) == fetch_recent_news(news, r.at)

\* the history requirement of a variant, as the specification states it
EnoughHistory(code, cs) ==
    CASE code = "NEWS_RSI_COMBO" -> Len(cs) >= rsi_period + 1
      [] code = "NEWS_BREAKOUT_COMBO" -> Len(cs) >= lookback + 1
      [] code = "NEWS_TREND_MA200_COMBO" -> Len(cs) >= ma_period + 20

\* the technical buy condition the variant evaluates (enough history given)
TechBuy(code, cs) ==
    CASE code = "NEWS_RSI_COMBO" -> RSI_locals(cs).tech_buy
      [] code = "NEWS_BREAKOUT_COMBO" -> Breakout_locals(cs).tech_buy
      [] code = "NEWS_TREND_MA200_COMBO" -> Trend_locals(cs).tech_buy

\* the last call is one of a combination variant that evaluated its
\* technical condition and returned
Fused_call == /\ res.who \in ComboCodes /\ Ok(res)
              /\ EnoughHistory(res.who, candles)

\* C1: every result generate_signal returns (a combination variant's, and
\* the sentiment aggregator's, called directly or by a variant) has
\* signal_type BUY or HOLD, and so has every row run_for_asset inserts into
\* "signals": no SELL is produced or persisted.
C1_NoSell ==
    /\ Ok(res) => /\ res.out.signal_type \in SignalTypes
                  /\ "news" \in DOMAIN res.out.extra
                        => res.out.extra.news.signal_type \in SignalTypes
    /\ \A i \in 1..Len(signals) : signals[i].signal_type \in SignalTypes

\* a run inserted a row for a variant whose news sentiment was negative
C1_Witness ==
    /\ Len(signals) >= 1 /\ Ok(res)
    /\ "news" \in DOMAIN res.out.extra
    /\ res.out.extra.news.extra.avg_sentiment < 0
    /\ signals[Len(signals)].meta = res.out.extra

\* C2: in every combination variant, when the technical buy condition is
\* false the result is HOLD with confidence exactly 0.2 whatever the news
\* result is, and a BUY is returned only when the condition is true.
C2_TechGate ==
    Fused_call =>
       /\ ~TechBuy(res.who, candles)
             => res.out.signal_type = HOLD /\ res.out.confidence = 200
       /\ res.out.signal_type = BUY => TechBuy(res.who, candles)

\* the condition is false and the news is as good as it gets
C2_Witness ==
    /\ Fused_call /\ ~TechBuy(res.who, candles)
    /\ res.out.extra.news.signal_type = BUY
    /\ res.out.extra.news.confidence = 1000
    /\ res.out.confidence = 200

\* C3: the confidence of every result returned by the sentiment aggregator
\* and by each combination variant lies in [0, 1] (0..1000 thousandths), for
\* sentiment scores in [-1, 1], impact scores in [0, 1] and any publication
\* time, past or future.
C3_Confidence ==
    \A r \in {res, prev} :
       Ok(r) => /\ r.out.confidence \in 0..1000
                /\ "news" \in DOMAIN r.out.extra
                      => r.out.extra.news.confidence \in 0..1000

\* a variant returned BUY with news that held an article dated in the future
C3_Witness ==
    /\ Fused_call /\ res.out.signal_type = BUY
    /\ res.out.extra.news.extra.articles_count >= min_articles
    /\ \E i \in 1..Len(Fetched(res)) : Fetched(res)[i].published_at > res.at

\* C4: when a variant's history requirement is unmet (fewer than period + 1,
\* lookback + 1, ma_period + 20 candles) generate_signal returns HOLD with
\* confidence 0.1 and extra = {reason: "not_enough_candles"}, and makes no
\* news query.
C4_ShortCircuit ==
    (res.who \in ComboCodes /\ Made(res) /\ ~EnoughHistory(res.who, candles))
       => /\ res.out = Returned(HOLD, 100, [reason |-> "not_enough_candles"])
          /\ fetches = 0

\* one candle too few for a variant, with enough news in the table to score
C4_Witness ==
    /\ res.who \in ComboCodes /\ Made(res)
    /\ Len(candles) \in {rsi_period, lookback, ma_period + 19}
    /\ ~EnoughHistory(res.who, candles)
    /\ Len(Fetched(res)) >= min_articles
    /\ fetches = 0

\* a field that is no number
Malformed(x) == x.kind # "num"

\* the row with its malformed fields replaced by 0.0 (sentiment), 0.5 (impact)
Defaulted(art) ==
    [art EXCEPT !.sentiment_score = IF Malformed(@) THEN Num(0) ELSE @,
                !.impact_score = IF Malformed(@) THEN Num(5) ELSE @]

DefaultedTable == [i \in 1..Len(news) |-> Defaulted(news[i])]

\* C5: when a fetched news item has a non-numeric sentiment_score or
\* impact_score, generate_signal does not raise: it returns the result it
\* returns with the field taken as 0.0 (sentiment) or 0.5 (impact).
C5_MalformedCoerced ==
    (Made(res) /\ \E i \in 1..Len(Fetched(res)) :
                     \/ Malformed(Fetched(res)[i].sentiment_score)
                     \/ Malformed(Fetched(res)[i].impact_score))
       => res.out = generate_signal(res.who, candles, DefaultedTable, res.at).out

StrongNow(n) ==
    /\ res.who = NewsCode /\ Made(res)
    /\ Len(Fetched(res)) = n
    /\ \A i \in 1..n : Fetched(res)[i] = Article(res.at, Num(10), Num(10))

\* C7 as stated: with the default settings, when the only article fetched
\* has sentiment 1.0 and impact 1.0 and was published now, the aggregator
\* returns avg_sentiment about 1.0, BUY and confidence about 1.0.
C7_SingleArticleBuy ==
    StrongNow(1) => /\ Ok(res) /\ res.out.signal_type = BUY
                    /\ res.out.confidence >= 990
                    /\ res.out.extra.avg_sentiment >= 990

\* C7 as amended: with the default settings (min_articles = 2) that single
\* article gives HOLD, confidence 0.1, avg_sentiment 0.0 and reason
\* "not_enough_news"; two such articles give avg_sentiment 1.0, BUY and
\* confidence 1.0.
C7_SingleArticleHold ==
    /\ StrongNow(1) => res.out = Returned(HOLD, 100,
                                          [reason |-> "not_enough_news",
                                           articles_count |-> 1, avg_sentiment |-> 0])
    /\ StrongNow(min_articles)
          => res.out = Returned(BUY, 1000, [avg_sentiment |-> 1000,
                                            articles_count |-> min_articles])

\* the aggregator was called with that single article fetched
C7_Witness == StrongNow(1) /\ Ok(res)

\* the weighted average as the specification states it: weight = impact_score
\* * recency_weight, the 0.5 only for an absent impact_score
RECURSIVE StatedSums(_, _, _)
StatedSums(articles, i, t) ==
    IF i > Len(articles) THEN [weighted_sum |-> FInt(0), weight_total |-> FInt(0)]
    ELSE LET art == articles[i]
             s == IF art.sentiment_score.kind = "num" THEN Frac(art.sentiment_score.v, 10)
                  ELSE FInt(0)
             impact == IF art.impact_score.kind = "num" THEN Frac(art.impact_score.v, 10)
                       ELSE Frac(1, 2)
         IN  add_weighted(StatedSums(articles, i + 1, t), s,
                          FMul(impact, recency_weight(t - art.published_at)))

StatedAverage(sums) ==
    IF sums.weight_total.n > 0 THEN FDiv(sums.weighted_sum, sums.weight_total) ELSE FInt(0)

\* C8: each article weighs impact_score * recency_weight in the average, the
\* 0.5 standing in only for an absent impact_score: an article of impact 0
\* weighs 0, and the average is 0.0 when the total weight is 0.
C8_ImpactWeight ==
    (res.who = NewsCode /\ Ok(res) /\ Len(Fetched(res)) >= min_articles)
       => res.out.extra.avg_sentiment
             = Round(StatedAverage(StatedSums(Fetched(res), 1, res.at)), 1000)

\* the run is over, by a return or by an exception
RunEnded == pc \in {"done", "raised"}

\* the strategies of the timeframe of the run
OfTimeframe == {build_combined_strategies[i].code :
                  i \in {j \in 1..Len(build_combined_strategies) :
                           build_combined_strategies[j].timeframe = timeframe}}

RowsOf(code) == {i \in 1..Len(signals) : signals[i].strategy_id = code}

\* C9: run_for_asset inserts a row for a strategy only after the candles
\* came back non-empty, the asset lookup returned an id and that strategy's
\* lookup returned an id; with no candles or an unknown asset no signal is
\* generated and nothing is inserted; an unknown strategy is skipped alone,
\* the remaining ones are still processed; each strategy that passes yields
\* exactly one row, with price = last close and generated_at = last time.
C9_Orchestration ==
    /\ \A i \in 1..Len(signals) :
          /\ candles # <<>> /\ asset_id # ""
          /\ signals[i].strategy_id \in strategy_ids
    /\ (RunEnded /\ (candles = <<>> \/ asset_id = ""))
          => signals = <<>> /\ ~Made(res)
    /\ (RunEnded /\ candles # <<>> /\ asset_id # "")
          => /\ strategy_ids \cup skipped = OfTimeframe
             /\ \A code \in strategy_ids :
                   /\ Cardinality(RowsOf(code)) = 1
                   /\ \A i \in RowsOf(code) :
                         /\ signals[i].price = candles[Len(candles)].close
                         /\ signals[i].generated_at = candles[Len(candles)].time

\* C10: the 0.35 threshold rejects nothing: whenever the technical buy
\* condition is true the normalized score is at least 0.7 and the result is
\* BUY with confidence >= 0.7; the decision equals the technical condition.
C10_ThresholdIdle ==
    Fused_call =>
       /\ TechBuy(res.who, candles)
             => /\ res.out.signal_type = BUY
                /\ res.out.confidence >= 700
                /\ res.out.extra.normalized_score >= 700
       /\ res.out.signal_type = BUY <=> TechBuy(res.who, candles)

\* the condition is true and the news is as bad as it gets: exactly 0.7
C10_Witness ==
    /\ Fused_call /\ TechBuy(res.who, candles)
    /\ res.out.extra.news.extra.avg_sentiment = -1000
    /\ res.out.confidence = 700
====
